---------------------------- MODULE Spec2Model ----------------------------
(***************************************************************************)
(* A model of CTIDH/mont.py (Montgomery x-only arithmetic, Elligator, the  *)
(* Montgomery ladder) and CTIDH/isogeny.py (the matryoshka isogeny engine  *)
(* with the traditional Velu formulas).                                    *)
(*                                                                         *)
(* Field elements are integers modulo the prime of the configuration.     *)
(* Projective points and coefficient pairs are 2-tuples <<X, Z>>.          *)
(* Python lists are TLA+ sequences: Python index k is TLA+ index k+1.      *)
(***************************************************************************)
EXTENDS Integers, Sequences, FiniteSets, TLC

VARIABLES
    \* ---- the engine (Formulae instance) and the curve it was built on
    cfg,            \* prime_info: L, batch_start, batch_stop, p, tuned tables
    formula_name,   \* 'tvelu' | 'svelu' | 'hvelu'
    tuned,          \* Formulae.__init__ argument
    eng,            \* the scratch fields J, sJ, ptree_hI, sI, K, sK
    \* ---- one matryoshka_isogeny call per caller
    pc,             \* position of the call
    args,           \* A, Tnewlen, P, i
    Ts,             \* the caller's list object (mutated in place by the call)
    Ts0,            \* ghost: the list as it was when the call started
    eng0,           \* ghost: the scratch fields when the call started
    loc,            \* locals: l, l_fake, A24, d, d_fake, hats, b, c
    path,           \* "none" | "velu" | "velusqrt"
    ret,            \* outcome: none, a returned value, or a raised error
    ops,            \* field operations performed so far by the call
    \* ---- xmul_Ladder
    lad,
    \* ---- affine_to_projective / xA24 / coeff
    cf,
    \* ---- elligator
    ell,
    \* ---- kps_t run on its own
    kp

vars == <<cfg, formula_name, tuned, eng, pc, args, Ts, Ts0, eng0, loc, path,
          ret, ops, lad, cf, ell, kp>>

engineVars == <<cfg, formula_name, tuned, eng>>
callVars == <<pc, args, Ts, Ts0, eng0, loc, path, ret, ops>>

---------------------------------------------------------------------------
(* Configurations (prime_info as read by read_prime_info).                 *)

\* p = 4 * 3 * 5 * 7 - 1, batches {3} and {5, 7}
CfgSmall ==
    [L |-> <<3, 5, 7>>, batch_start |-> <<0, 1>>, batch_stop |-> <<0, 2>>,
     p |-> 419, sJ_list |-> <<0, 1, 0>>, sI_list |-> <<0, 1, 1>>]

\* p = 4 * 3 * 5 * 7 - 1, batches {3, 5} and {7}
CfgMixed ==
    [L |-> <<3, 5, 7>>, batch_start |-> <<0, 2>>, batch_stop |-> <<1, 2>>,
     p |-> 419, sJ_list |-> <<0, 1, 0>>, sI_list |-> <<0, 1, 1>>]

\* p = 4 * 3 * 13 * 89 - 1, batches {3} and {13, 89}: 89 is above the cutoff
CfgLarge ==
    [L |-> <<3, 13, 89>>, batch_start |-> <<0, 1>>, batch_stop |-> <<0, 2>>,
     p |-> 13883, sJ_list |-> <<0, 1, 4>>, sI_list |-> <<0, 3, 5>>]

Configs == {CfgSmall, CfgMixed, CfgLarge}

\* p = 4 * 3 * 5 - 1, one batch
CfgTiny ==
    [L |-> <<3, 5>>, batch_start |-> <<0>>, batch_stop |-> <<1>>,
     p |-> 59, sJ_list |-> <<0, 1>>, sI_list |-> <<0, 1>>]

\* p = 4 * 3 * 5 * 11 - 1, batches {3, 5} and {11}
CfgEleven ==
    [L |-> <<3, 5, 11>>, batch_start |-> <<0, 2>>, batch_stop |-> <<1, 2>>,
     p |-> 659, sJ_list |-> <<0, 1, 1>>, sI_list |-> <<0, 1, 2>>]

\* p = 4 * 3 * 7 * 13 - 1, batches {3} and {7, 13}
CfgThirteen ==
    [L |-> <<3, 7, 13>>, batch_start |-> <<0, 1>>, batch_stop |-> <<0, 2>>,
     p |-> 1091, sJ_list |-> <<0, 1, 1>>, sI_list |-> <<0, 1, 3>>]

L == cfg.L
p == cfg.p
len_L == Len(L)

\* Python indices of L
Indices == 0 .. (len_L - 1)

---------------------------------------------------------------------------
(* The prime field (CTIDH.primefield) and the selection primitives.        *)

Fp == 0 .. (p - 1)

field(n) == n % p
FAdd(a, b) == (a + b) % p
FSub(a, b) == (a - b) % p
FMul(a, b) == (a * b) % p
FNeg(a) == (0 - a) % p
FSqr(a) == (a * a) % p

RECURSIVE FPow(_, _)
FPow(a, n) ==
    IF n = 0 THEN 1 % p
    ELSE IF n % 2 = 0 THEN FPow((a * a) % p, n \div 2)
    ELSE (a * FPow((a * a) % p, n \div 2)) % p

\* a ** (-1)
FInv(a) == FPow(a, p - 2)

\* quadratic-residue test (Euler's criterion; 0 counts as a square)
is_square(a) == FPow(a, (p - 1) \div 2) # p - 1

CMOV(a, b, ctrl) == IF ctrl THEN b ELSE a
CSWAP(a, b, ctrl) == IF ctrl THEN <<b, a>> ELSE <<a, b>>

---------------------------------------------------------------------------
(* Operation counts: additions/subtractions, multiplications, squarings    *)
(* (x ** 2) and general exponentiations (x ** n, n > 2).                   *)

Cost(a, m, s, e) == [add |-> a, mul |-> m, sqr |-> s, pow |-> e]
NoCost == Cost(0, 0, 0, 0)
Plus(x, y) == Cost(x.add + y.add, x.mul + y.mul, x.sqr + y.sqr, x.pow + y.pow)
Times(n, x) == Cost(n * x.add, n * x.mul, n * x.sqr, n * x.pow)

---------------------------------------------------------------------------
(* mont.py: coefficient encodings.                                         *)

\* an encoding with the sign of xA24
affine_to_projective_minus(affine) == <<FSub(affine, field(2)), field(4)>>

affine_to_projective(affine) == <<FAdd(affine, field(2)), field(4)>>

\* the inverse extraction kept (commented out) in mont.py
coeff(A24) ==
    LET o1 == FAdd(A24[1], A24[1])
        o2 == FSub(o1, A24[2])
        C24_inv == FInv(A24[2])
        o3 == FAdd(o2, o2)
    IN  FMul(o3, C24_inv)

xA24(A) ==
    LET Ax == A[1]
        Az == A[2]
        two_Az == FAdd(Az, Az)
    IN  <<FSub(Ax, two_Az), FAdd(two_Az, two_Az)>>

xA24_cost == Cost(3, 0, 0, 0)

isinfinity(P) == P[2] = 0

isequal(P, Q) == FMul(P[1], Q[2]) = FMul(P[2], Q[1])

---------------------------------------------------------------------------
(* mont.py: x-only point arithmetic.                                       *)

\* the assertion at the head of xdbl
xdbl_assert(P) == P[1] # 0 /\ P[2] # 0

xdbl(P, A24) ==
    LET XP == P[1]
        ZP == P[2]
        V1a == FSqr(FAdd(XP, ZP))
        V2 == FSqr(FSub(XP, ZP))
        Z2Pa == FMul(A24[2], V2)
        X2P == FMul(Z2Pa, V1a)
        V1 == FSub(V1a, V2)
        Z2Pb == FAdd(Z2Pa, FMul(A24[1], V1))
        Z2P == FMul(Z2Pb, V1)
    IN  <<X2P, Z2P>>

xdbl_cost == Cost(4, 4, 2, 0)

xadd(P, Q, PQ) ==
    LET XP == P[1]
        ZP == P[2]
        XQ == Q[1]
        ZQ == Q[2]
        XPQ == PQ[1]
        ZPQ == PQ[2]
        V1 == FMul(FSub(XQ, ZQ), FAdd(XP, ZP))
        V2 == FMul(FAdd(XQ, ZQ), FSub(XP, ZP))
        V3 == FSqr(FAdd(V1, V2))
        V4 == FSqr(FSub(V1, V2))
    IN  <<FMul(ZPQ, V3), FMul(XPQ, V4)>>

xadd_cost == Cost(6, 4, 2, 0)

crisscross(alpha, beta, gamma, delta) ==
    LET t_1 == FMul(alpha, delta)
        t_2 == FMul(beta, gamma)
    IN  <<FAdd(t_1, t_2), FSub(t_1, t_2)>>

crisscross_cost == Cost(2, 2, 0, 0)

---------------------------------------------------------------------------
(* utils: batch metadata (batchmaxprime_of_Li) and Python list indexing.   *)

Max(S) == CHOOSE x \in S : \A y \in S : y <= x

\* seq[i] as Python evaluates it for -len(seq) <= i < len(seq)
PyIndex(seq, i) == IF i >= 0 THEN seq[i + 1] ELSE seq[Len(seq) + i + 1]
PyIndexable(seq, i) == (0 - Len(seq)) <= i /\ i < Len(seq)

Batches == 1 .. Len(cfg.batch_start)

\* the batch whose index range [batch_start, batch_stop] holds index i
batchnumber_of_Li(i) ==
    CHOOSE b \in Batches : cfg.batch_start[b] <= i /\ i <= cfg.batch_stop[b]

\* l_fake(i): the largest prime of the batch of L[i]
batchmaxprime_of_Li(i) ==
    LET b == batchnumber_of_Li(i)
    IN  Max({L[k + 1] : k \in cfg.batch_start[b] .. cfg.batch_stop[b]})

SameBatch(i) == {j \in Indices : batchnumber_of_Li(j) = batchnumber_of_Li(i)}

---------------------------------------------------------------------------
(* isogeny.py: Formulae.__init__                                           *)

cutoff == 83

HYBRID_BOUND ==
    CASE formula_name = "tvelu" -> Max({L[k] : k \in 1 .. len_L})
      [] formula_name = "svelu" -> 1
      [] formula_name = "hvelu" -> cutoff

\* field values of the scratch attributes
None == [tag |-> "None", v |-> 0]
TupleOfNone == [tag |-> "(None,)", v |-> 0]
IntVal(n) == [tag |-> "int", v |-> n]

EngInit ==
    [J |-> None, sJ |-> None, ptree_hI |-> None, sI |-> TupleOfNone,
     K |-> None, sK |-> None]

---------------------------------------------------------------------------
(* isogeny.py: kps_t, xisog_t, xeval_t                                     *)

RECURSIVE kps_t_loop(_, _, _, _)
kps_t_loop(Xi_Zis, i, d_fake, P) ==
    IF i >= d_fake THEN Xi_Zis
    ELSE kps_t_loop(Append(Xi_Zis, xadd(Xi_Zis[i], P, Xi_Zis[i - 1])),
                    i + 1, d_fake, P)

\* kps_t raises when xdbl is reached with a point it refuses
kps_t_raises(d_fake, P) == d_fake >= 2 /\ ~xdbl_assert(P)

kps_t(d_fake, P, A24) ==
    LET first == <<P>>
        second == IF d_fake >= 2 THEN Append(first, xdbl(P, A24)) ELSE first
    IN  kps_t_loop(second, 2, d_fake, P)

kps_t_cost(d_fake) ==
    Plus(IF d_fake >= 2 THEN xdbl_cost ELSE NoCost,
         Times(IF d_fake > 2 THEN d_fake - 2 ELSE 0, xadd_cost))

\* Xi_Zi_hats = [(Xi+Zi, Xi-Zi) for (Xi, Zi) in xiP_list]
Xi_Zi_hats_of(xiP_list) ==
    [k \in 1 .. Len(xiP_list) |->
        <<FAdd(xiP_list[k][1], xiP_list[k][2]),
          FSub(xiP_list[k][1], xiP_list[k][2])>>]

Xi_Zi_hats_cost(n) == Times(n, Cost(2, 0, 0, 0))

\* number of entries the codomain accumulation folds in: range(d)
xisog_t_fold(d, d_fake) == d

RECURSIVE xisog_t_loop(_, _, _, _, _)
xisog_t_loop(pi_Y, pi_Z, i, n, hats) ==
    IF i >= n THEN <<pi_Y, pi_Z>>
    ELSE xisog_t_loop(FMul(pi_Y, hats[i + 1][2]), FMul(pi_Z, hats[i + 1][1]),
                      i + 1, n, hats)

xisog_t(d, d_fake, hats, A) ==
    LET Ax == A[1]
        Az == A[2]
        l == 2 * d + 1
        t == FAdd(Az, Az)
        aE == FAdd(Ax, t)
        dE == FSub(Ax, t)
        al == FPow(aE, l)
        dl == FPow(dE, l)
        pi == xisog_t_loop(field(1), field(1), 0, xisog_t_fold(d, d_fake), hats)
        aE_new == FMul(al, FPow(pi[2], 8))
        dE_new == FMul(dl, FPow(pi[1], 8))
        aE_dE == FAdd(aE_new, dE_new)
    IN  <<FAdd(aE_dE, aE_dE), FSub(aE_new, dE_new)>>

xisog_t_cost(d, d_fake) ==
    Plus(Cost(6, 2, 0, 4), Times(xisog_t_fold(d, d_fake), Cost(0, 2, 0, 0)))

\* last index (exclusive) of the evaluation fold: range(1, d)
xeval_t_fold(d, d_fake) == d

RECURSIVE xeval_t_loop(_, _, _, _, _, _, _)
xeval_t_loop(X_prime, Z_prime, i, n, hats, X_hat, Z_hat) ==
    IF i >= n THEN <<X_prime, Z_prime>>
    ELSE LET t == crisscross(hats[i + 1][1], hats[i + 1][2], X_hat, Z_hat)
         IN  xeval_t_loop(FMul(t[1], X_prime), FMul(t[2], Z_prime),
                          i + 1, n, hats, X_hat, Z_hat)

xeval_t(d, d_fake, hats, T) ==
    LET X == T[1]
        Z == T[2]
        X_hat == FAdd(X, Z)
        Z_hat == FSub(X, Z)
        seed == crisscross(hats[1][1], hats[1][2], X_hat, Z_hat)
        r == xeval_t_loop(seed[1], seed[2], 1, xeval_t_fold(d, d_fake),
                          hats, X_hat, Z_hat)
    IN  <<FMul(X, FSqr(r[1])), FMul(Z, FSqr(r[2]))>>

xeval_t_cost(d, d_fake) ==
    LET n == xeval_t_fold(d, d_fake)
    IN  Plus(Plus(Cost(2, 0, 0, 0), crisscross_cost),
             Plus(Times(IF n > 1 THEN n - 1 ELSE 0,
                        Plus(crisscross_cost, Cost(0, 2, 0, 0))),
                  Cost(0, 2, 2, 0)))

---------------------------------------------------------------------------
(* isogeny.py: matryoshka_isogeny, one call per caller, step by step.      *)

Callers == {1, 2}

NoLoc ==
    [l |-> 0, l_fake |-> 0, A24 |-> <<0, 0>>, d |-> 0, d_fake |-> 0,
     hats |-> <<>>, A_new |-> <<0, 0>>, b |-> 0, c |-> 0]
NoArgs == [A |-> <<0, 0>>, Tnewlen |-> 0, P |-> <<0, 0>>, i |-> 0]
NoRet == [kind |-> "none", err |-> "", line |-> 0, A_new |-> <<0, 0>>]
NoTs == <<>>

Raised(e, ln) == [kind |-> "error", err |-> e, line |-> ln, A_new |-> <<0, 0>>]
Returned(A_new) == [kind |-> "value", err |-> "", line |-> 0, A_new |-> A_new]

\* the values the call may be given
ArgA == {<<0, 1>>, <<5, 2>>}
ArgP == {<<3, 1>>, <<7, 5>>, <<4, 0>>, <<0, 2>>}
ArgTs == {<< <<2, 1>>, <<6, 1>> >>, << <<9, 4>>, <<1, 0>> >>}
ArgTnewlen == (0 - 1) .. 3
ArgIndex == (0 - len_L - 1) .. len_L

\* the caller passes its list; the call works on that same object
Call(c, A, T, n, P, i) ==
    /\ pc[c] = "idle"
    /\ pc' = [pc EXCEPT ![c] = "assert"]
    /\ args' = [args EXCEPT ![c] = [A |-> A, Tnewlen |-> n, P |-> P, i |-> i]]
    /\ Ts' = [Ts EXCEPT ![c] = T]
    /\ Ts0' = [Ts0 EXCEPT ![c] = T]
    /\ eng0' = [eng0 EXCEPT ![c] = eng]
    /\ loc' = [loc EXCEPT ![c] = NoLoc]
    /\ path' = [path EXCEPT ![c] = "none"]
    /\ ret' = [ret EXCEPT ![c] = NoRet]
    /\ ops' = [ops EXCEPT ![c] = NoCost]
    /\ UNCHANGED <<engineVars, lad, cf, ell, kp>>

\* assert 0 <= Tnewlen <= 2 ; assert i < len(self.L)
Tnewlen_assert(n) == 0 <= n /\ n <= 2
index_assert(i) == i < len_L

Asserts(c) ==
    /\ pc[c] = "assert"
    /\ IF ~Tnewlen_assert(args[c].Tnewlen)
       THEN /\ pc' = [pc EXCEPT ![c] = "failed"]
            /\ ret' = [ret EXCEPT ![c] = Raised("AssertionError", 137)]
       ELSE IF ~index_assert(args[c].i)
       THEN /\ pc' = [pc EXCEPT ![c] = "failed"]
            /\ ret' = [ret EXCEPT ![c] = Raised("AssertionError", 138)]
       ELSE /\ pc' = [pc EXCEPT ![c] = "dispatch"]
            /\ ret' = ret
    /\ UNCHANGED <<engineVars, args, Ts, Ts0, eng0, loc, path, ops, lad, cf, ell, kp>>

\* What batchmaxprime_of_Li yields.  For an index of L's range it is the
\* batch maximum.  For a negative index, which L[i] accepts, the helper is
\* not constrained: it either raises or resolves the index as L[i] does.
l_fake_outcomes(i) ==
    IF i >= 0 THEN {[raised |-> FALSE, v |-> batchmaxprime_of_Li(i)]}
    ELSE {[raised |-> TRUE, v |-> 0],
          [raised |-> FALSE, v |-> batchmaxprime_of_Li(len_L + i)]}

\* a branch taken on the true degree
use_velu_on_l(l, l_fake) == l <= HYBRID_BOUND

\* a branch that sends the bound itself to the square-root path
use_velu_strict(l, l_fake) == l_fake < HYBRID_BOUND

\* the branch: if l_fake <= self.HYBRID_BOUND
use_velu(l, l_fake) == l_fake <= HYBRID_BOUND

Dispatch(c) ==
    /\ pc[c] = "dispatch"
    /\ IF ~PyIndexable(L, args[c].i)
       THEN /\ pc' = [pc EXCEPT ![c] = "failed"]
            /\ ret' = [ret EXCEPT ![c] = Raised("IndexError", 140)]
            /\ UNCHANGED <<loc, path, ops>>
       ELSE \E o \in l_fake_outcomes(args[c].i) :
            IF o.raised
            THEN /\ pc' = [pc EXCEPT ![c] = "failed"]
                 /\ ret' = [ret EXCEPT ![c] = Raised("Exception", 141)]
                 /\ UNCHANGED <<loc, path, ops>>
            ELSE LET l == PyIndex(L, args[c].i)
                     l_fake == o.v
                     velu == use_velu(l, l_fake)
                 IN  /\ loc' = [loc EXCEPT ![c] =
                            [@ EXCEPT !.l = l, !.l_fake = l_fake,
                                      !.A24 = xA24(args[c].A),
                                      !.d = IF velu THEN (l - 1) \div 2 ELSE 0,
                                      !.d_fake = IF velu THEN (l_fake - 1) \div 2
                                                 ELSE 0]]
                     /\ ops' = [ops EXCEPT ![c] = Plus(@, xA24_cost)]
                     /\ path' = [path EXCEPT ![c] =
                                    IF velu THEN "velu" ELSE "velusqrt"]
                     /\ pc' = [pc EXCEPT ![c] = IF velu THEN "kps" ELSE "params"]
                     /\ ret' = ret
    /\ UNCHANGED <<engineVars, args, Ts, Ts0, eng0, lad, cf, ell, kp>>

\* xiP_list = self.kps_t(d_fake, P, A24) ; Xi_Zi_hats = [...]
Kps(c) ==
    /\ pc[c] = "kps"
    /\ IF kps_t_raises(loc[c].d_fake, args[c].P)
       THEN /\ pc' = [pc EXCEPT ![c] = "failed"]
            /\ ret' = [ret EXCEPT ![c] = Raised("AssertionError", 163)]
            /\ UNCHANGED <<loc, ops>>
       ELSE LET xiP_list == kps_t(loc[c].d_fake, args[c].P, loc[c].A24)
            IN  /\ loc' = [loc EXCEPT ![c].hats = Xi_Zi_hats_of(xiP_list)]
                /\ ops' = [ops EXCEPT ![c] =
                              Plus(@, Plus(kps_t_cost(loc[c].d_fake),
                                           Xi_Zi_hats_cost(Len(xiP_list))))]
                /\ pc' = [pc EXCEPT ![c] = "xisog"]
                /\ ret' = ret
    /\ UNCHANGED <<engineVars, args, Ts, Ts0, eng0, path, lad, cf, ell, kp>>

\* A_new = self.xisog_t(d, d_fake, Xi_Zi_hats, A)
Xisog(c) ==
    /\ pc[c] = "xisog"
    /\ IF ~(loc[c].d_fake >= loc[c].d)
       THEN /\ pc' = [pc EXCEPT ![c] = "failed"]
            /\ ret' = [ret EXCEPT ![c] = Raised("AssertionError", 219)]
            /\ UNCHANGED <<loc, ops>>
       ELSE /\ loc' = [loc EXCEPT ![c].A_new =
                          xisog_t(loc[c].d, loc[c].d_fake, loc[c].hats, args[c].A)]
            /\ ops' = [ops EXCEPT ![c] =
                          Plus(@, xisog_t_cost(loc[c].d, loc[c].d_fake))]
            /\ pc' = [pc EXCEPT ![c] = "xeval0"]
            /\ ret' = ret
    /\ UNCHANGED <<engineVars, args, Ts, Ts0, eng0, path, lad, cf, ell, kp>>

\* if Tnewlen > 0 / if Tnewlen > 1
push_first(Tnewlen) == Tnewlen > 0
\* a second push that any push request triggers
push_second_always(Tnewlen) == Tnewlen > 0

push_second(Tnewlen) == Tnewlen > 1

\* if Tnewlen > 0: Ts[0] = self.xeval_t(d, d_fake, Xi_Zi_hats, Ts[0])
Xeval0(c) ==
    /\ pc[c] = "xeval0"
    /\ IF push_first(args[c].Tnewlen)
       THEN /\ Ts' = [Ts EXCEPT ![c][1] =
                         xeval_t(loc[c].d, loc[c].d_fake, loc[c].hats, Ts[c][1])]
            /\ ops' = [ops EXCEPT ![c] =
                          Plus(@, xeval_t_cost(loc[c].d, loc[c].d_fake))]
       ELSE UNCHANGED <<Ts, ops>>
    /\ pc' = [pc EXCEPT ![c] = "xeval1"]
    /\ UNCHANGED <<engineVars, args, Ts0, eng0, loc, path, ret, lad, cf, ell, kp>>

\* if Tnewlen > 1: Ts[1] = self.xeval_t(d, d_fake, Xi_Zi_hats, Ts[1])
\* return A_new, Ts
Xeval1(c) ==
    /\ pc[c] = "xeval1"
    /\ IF push_second(args[c].Tnewlen)
       THEN /\ Ts' = [Ts EXCEPT ![c][2] =
                         xeval_t(loc[c].d, loc[c].d_fake, loc[c].hats, Ts[c][2])]
            /\ ops' = [ops EXCEPT ![c] =
                          Plus(@, xeval_t_cost(loc[c].d, loc[c].d_fake))]
       ELSE UNCHANGED <<Ts, ops>>
    /\ ret' = [ret EXCEPT ![c] = Returned(loc[c].A_new)]
    /\ pc' = [pc EXCEPT ![c] = "done"]
    /\ UNCHANGED <<engineVars, args, Ts0, eng0, loc, path, lad, cf, ell, kp>>

---------------------------------------------------------------------------
(* isogeny.py: the velusqrt branch and set_parameters_velu.                *)

\* int(floor(sqrt(n) / 2.0))
half_sqrt(n) == Max({b \in 0 .. n : 4 * b * b <= n})

\* the (b, c) handed to set_parameters_velu
velu_b(i) ==
    IF tuned THEN PyIndex(cfg.sJ_list, i)
    ELSE IF PyIndex(L, i) = 3 THEN 0 ELSE half_sqrt(PyIndex(L, i) - 1)

velu_c(i) ==
    IF tuned THEN PyIndex(cfg.sI_list, i)
    ELSE IF PyIndex(L, i) = 3 THEN 0
    ELSE (PyIndex(L, i) - 1) \div (4 * velu_b(i))

\* d = ((self.L[i] - 2 - 4 * b * c - 1) // 2) + 1
velu_sK(b, c, i) == ((PyIndex(L, i) - 2 - 4 * b * c - 1) \div 2) + 1

Params(c) ==
    /\ pc[c] = "params"
    /\ IF tuned /\ formula_name = "tvelu"
       THEN /\ pc' = [pc EXCEPT ![c] = "failed"]
            /\ ret' = [ret EXCEPT ![c] = Raised("AttributeError", 167)]
            /\ loc' = loc
       ELSE /\ loc' = [loc EXCEPT ![c] = [@ EXCEPT !.b = velu_b(args[c].i),
                                                   !.c = velu_c(args[c].i)]]
            /\ pc' = [pc EXCEPT ![c] = "set_sJ"]
            /\ ret' = ret
    /\ UNCHANGED <<engineVars, args, Ts, Ts0, eng0, path, ops, lad, cf, ell, kp>>

\* assert b <= c ; self.sJ = b
SetSJ(c) ==
    /\ pc[c] = "set_sJ"
    /\ IF ~(loc[c].b <= loc[c].c)
       THEN /\ pc' = [pc EXCEPT ![c] = "failed"]
            /\ ret' = [ret EXCEPT ![c] = Raised("AssertionError", 283)]
            /\ eng' = eng
       ELSE /\ eng' = [eng EXCEPT !.sJ = IntVal(loc[c].b)]
            /\ pc' = [pc EXCEPT ![c] = "set_sI"]
            /\ ret' = ret
    /\ UNCHANGED <<cfg, formula_name, tuned, args, Ts, Ts0, eng0, loc, path, ops,
                   lad, cf, ell, kp>>

\* self.sI = c
SetSI(c) ==
    /\ pc[c] = "set_sI"
    /\ eng' = [eng EXCEPT !.sI = IntVal(loc[c].c)]
    /\ pc' = [pc EXCEPT ![c] = "set_sK"]
    /\ UNCHANGED <<cfg, formula_name, tuned, args, Ts, Ts0, eng0, loc, path, ret,
                   ops, lad, cf, ell, kp>>

\* d = ... ; assert d >= 0 ; self.sK = d ; back in matryoshka_isogeny:
\* raise NotImplementedError
SetSK(c) ==
    /\ pc[c] = "set_sK"
    /\ LET d == velu_sK(loc[c].b, loc[c].c, args[c].i)
       IN  IF ~(d >= 0)
           THEN /\ ret' = [ret EXCEPT ![c] = Raised("AssertionError", 288)]
                /\ eng' = eng
           ELSE /\ eng' = [eng EXCEPT !.sK = IntVal(d)]
                /\ ret' = [ret EXCEPT ![c] = Raised("NotImplementedError", 178)]
    /\ pc' = [pc EXCEPT ![c] = "failed"]
    /\ UNCHANGED <<cfg, formula_name, tuned, args, Ts, Ts0, eng0, loc, path, ops,
                   lad, cf, ell, kp>>

\* the caller has the outcome; the engine is kept for the next call
Finish(c) ==
    /\ pc[c] \in {"done", "failed"}
    /\ pc' = [pc EXCEPT ![c] = "idle"]
    /\ args' = [args EXCEPT ![c] = NoArgs]
    /\ Ts' = [Ts EXCEPT ![c] = NoTs]
    /\ Ts0' = [Ts0 EXCEPT ![c] = NoTs]
    /\ eng0' = [eng0 EXCEPT ![c] = EngInit]
    /\ loc' = [loc EXCEPT ![c] = NoLoc]
    /\ path' = [path EXCEPT ![c] = "none"]
    /\ ret' = [ret EXCEPT ![c] = NoRet]
    /\ ops' = [ops EXCEPT ![c] = NoCost]
    /\ UNCHANGED <<engineVars, lad, cf, ell, kp>>

---------------------------------------------------------------------------
(* Idle values of the parts a specification does not exercise.             *)

LadIdle ==
    [pc |-> "idle", j |-> 0, P |-> <<0, 0>>, A24 |-> <<0, 0>>, kbits |-> <<>>,
     i |-> 0, x0 |-> <<0, 0>>, x1 |-> <<0, 0>>, k0 |-> 0, k1 |-> 0,
     diff_ok |-> TRUE, err |-> ""]
CfIdle == [pc |-> "idle", A |-> <<0, 0>>, pair |-> <<0, 0>>, out |-> 0, hist |-> <<>>]
EllIdle ==
    [pc |-> "idle", A |-> <<0, 0>>, rejected |-> <<>>, u |-> 0,
     Tplus |-> <<0, 0>>, Tminus |-> <<0, 0>>]

KpIdle ==
    [pc |-> "idle", a |-> 0, P |-> <<0, 0>>, y |-> 0, i |-> 0, d_fake |-> 0,
     A24 |-> <<0, 0>>, Xi_Zis |-> <<>>, n_xdbl |-> 0, n_xadd |-> 0]

CallsIdle ==
    /\ pc = [c \in Callers |-> "idle"]
    /\ args = [c \in Callers |-> NoArgs]
    /\ Ts = [c \in Callers |-> NoTs]
    /\ Ts0 = [c \in Callers |-> NoTs]
    /\ eng0 = [c \in Callers |-> EngInit]
    /\ loc = [c \in Callers |-> NoLoc]
    /\ path = [c \in Callers |-> "none"]
    /\ ret = [c \in Callers |-> NoRet]
    /\ ops = [c \in Callers |-> NoCost]

EngineIdle ==
    /\ formula_name = "tvelu"
    /\ tuned = FALSE
    /\ eng = EngInit
    /\ CallsIdle

---------------------------------------------------------------------------
(* Spec: one caller using an engine, call after call.                      *)

FormulaNames == {"tvelu", "svelu", "hvelu"}

Init ==
    /\ cfg \in Configs
    /\ formula_name \in FormulaNames
    /\ tuned \in BOOLEAN
    /\ eng = EngInit
    /\ CallsIdle
    /\ lad = LadIdle
    /\ kp = KpIdle
    /\ cf = CfIdle
    /\ ell = EllIdle

Step(c) ==
    \/ \E A \in ArgA, T \in ArgTs, n \in ArgTnewlen, P \in ArgP, i \in ArgIndex :
          Call(c, A, T, n, P, i)
    \/ Asserts(c)
    \/ Dispatch(c)
    \/ Kps(c)
    \/ Xisog(c)
    \/ Xeval0(c)
    \/ Xeval1(c)
    \/ Params(c)
    \/ SetSJ(c)
    \/ SetSI(c)
    \/ SetSK(c)
    \/ Finish(c)

Next == Step(1)

Spec == Init /\ [][Next]_vars

---------------------------------------------------------------------------
(* Claims about matryoshka_isogeny (checked under Spec, caller 1).         *)

Finished(c) == pc[c] \in {"done", "failed"}
ValidIndex(i) == i \in Indices
ValidTnewlen(n) == n \in 0 .. 2

\* the field operations of a traditional-path call on index j pushing n points
call_cost(j, n) ==
    LET d == (L[j + 1] - 1) \div 2
        d_fake == (batchmaxprime_of_Li(j) - 1) \div 2
    IN  Plus(xA24_cost,
        Plus(kps_t_cost(d_fake),
        Plus(Xi_Zi_hats_cost(d_fake),
        Plus(xisog_t_cost(d, d_fake), Times(n, xeval_t_cost(d, d_fake))))))

\* C1: a returned traditional-path call on index i has performed exactly the
\* field operations (additions, multiplications, squarings, powers) that the
\* call on any index j of the same batch with the same number of pushed
\* points performs, and its codomain and evaluation folds run to d_fake.
C1_BatchUniformity ==
    (pc[1] = "done" /\ ValidIndex(args[1].i)) =>
        /\ \A j \in SameBatch(args[1].i) :
              ops[1] = call_cost(j, args[1].Tnewlen)
        /\ xisog_t_fold(loc[1].d, loc[1].d_fake) = loc[1].d_fake
        /\ xeval_t_fold(loc[1].d, loc[1].d_fake) = loc[1].d_fake

\* the formula family the call on index j takes
path_of(j) ==
    IF use_velu(L[j + 1], batchmaxprime_of_Li(j)) THEN "velu" ELSE "velusqrt"

\* C2: once a call on a valid index i has chosen its formula family, that
\* family is the one every index j of the same batch gets.
C2_BranchOnBatch ==
    (path[1] # "none" /\ ValidIndex(args[1].i)) =>
        \A j \in SameBatch(args[1].i) : path_of(j) = path[1]

\* a call on a prime below the cutoff whose batch maximum is above it
C2_Witness ==
    /\ path[1] = "velusqrt"
    /\ formula_name = "hvelu"
    /\ ValidIndex(args[1].i)
    /\ L[args[1].i + 1] <= cutoff
    /\ Cardinality(SameBatch(args[1].i)) > 1

\* C3 as stated: a finished call on a valid index returned a value by the
\* traditional path exactly when l_fake <= HYBRID_BOUND, and otherwise ended
\* in NotImplementedError with no traditional formula executed.
C3_DispatchRule ==
    (Finished(1) /\ ValidIndex(args[1].i) /\ ValidTnewlen(args[1].Tnewlen)) =>
        IF batchmaxprime_of_Li(args[1].i) <= HYBRID_BOUND
        THEN path[1] = "velu" /\ ret[1].kind = "value"
        ELSE /\ path[1] = "velusqrt"
             /\ ret[1] = Raised("NotImplementedError", 178)
             /\ loc[1].hats = <<>>

\* C3 amended: on the traditional path the call returns a value unless xdbl
\* refuses the kernel point (d_fake >= 2 and X = 0 or Z = 0), which ends it
\* in xdbl's AssertionError; the rest is as stated.
C3_DispatchRuleAmended ==
    (Finished(1) /\ ValidIndex(args[1].i) /\ ValidTnewlen(args[1].Tnewlen)) =>
        IF batchmaxprime_of_Li(args[1].i) <= HYBRID_BOUND
        THEN /\ path[1] = "velu"
             /\ IF kps_t_raises(loc[1].d_fake, args[1].P)
                THEN ret[1] = Raised("AssertionError", 163)
                ELSE ret[1].kind = "value"
        ELSE /\ path[1] = "velusqrt"
             /\ ret[1] = Raised("NotImplementedError", 178)
             /\ loc[1].hats = <<>>
             /\ ops[1] = xA24_cost
             /\ Ts[1] = Ts0[1]

\* a hybrid engine that refused a batch above the cutoff
C3_Witness ==
    /\ pc[1] = "failed"
    /\ formula_name = "hvelu"
    /\ ValidIndex(args[1].i)
    /\ ret[1] = Raised("NotImplementedError", 178)

C5_KernelPointPrecondition ==
    (/\ Finished(1)
     /\ ValidIndex(args[1].i)
     /\ ValidTnewlen(args[1].Tnewlen)
     /\ path[1] = "velu"
     /\ args[1].P[2] = 0) =>
        /\ ret[1] = Raised("AssertionError", 163)
        /\ Ts[1] = Ts0[1]

\* C6: a returned call has replaced exactly the first Tnewlen entries of the
\* caller's list, each by the image of the entry the caller passed, and has
\* left every other entry as passed.
C6_AuxiliaryFrame ==
    pc[1] = "done" =>
        /\ Len(Ts[1]) = Len(Ts0[1])
        /\ \A k \in 1 .. Len(Ts0[1]) :
              Ts[1][k] = IF k <= args[1].Tnewlen
                         THEN xeval_t(loc[1].d, loc[1].d_fake, loc[1].hats,
                                      Ts0[1][k])
                         ELSE Ts0[1][k]
        /\ (args[1].Tnewlen = 0 => Ts[1] = Ts0[1])

\* one point pushed and changed, the other one kept
C6_Witness ==
    /\ pc[1] = "done"
    /\ args[1].Tnewlen = 1
    /\ Ts[1][1] # Ts0[1][1]
    /\ Ts[1][2] = Ts0[1][2]

\* C13: a finished traditional-path call with valid arguments that was to
\* push an auxiliary point with Z = 0 ended in an error with the caller's
\* list as passed, and whenever evaluation runs d <= d_fake holds and its
\* fold stays within the d_fake kernel multiples.
C13_DegenerateEvaluation ==
    /\ (/\ Finished(1)
        /\ ValidIndex(args[1].i)
        /\ ValidTnewlen(args[1].Tnewlen)
        /\ path[1] = "velu"
        /\ \E k \in 1 .. args[1].Tnewlen : isinfinity(Ts0[1][k])) =>
            /\ ret[1].kind = "error"
            /\ Ts[1] = Ts0[1]
    /\ (pc[1] \in {"xeval0", "xeval1", "done"} /\ ValidIndex(args[1].i)) =>
            /\ loc[1].d <= loc[1].d_fake
            /\ xeval_t_fold(loc[1].d, loc[1].d_fake) <= Len(loc[1].hats)
            /\ Len(loc[1].hats) = loc[1].d_fake

---------------------------------------------------------------------------
(* SpecShared: two callers (threads) using one engine instance, their      *)
(* calls interleaved statement by statement.  Each caller passes a list of *)
(* its own.                                                                *)

SharedConfigs == {CfgSmall, CfgLarge}
SharedFormulaNames == {"tvelu", "hvelu"}
SharedA == {<<5, 2>>}
SharedP == {<<3, 1>>, <<7, 5>>}
SharedTnewlen == {0, 2}

\* the list object of caller c
SharedTs(c) == IF c = 1 THEN << <<2, 1>>, <<6, 1>> >> ELSE << <<9, 4>>, <<5, 3>> >>

SharedInit ==
    /\ cfg \in SharedConfigs
    /\ formula_name \in SharedFormulaNames
    /\ tuned = FALSE
    /\ eng = EngInit
    /\ CallsIdle
    /\ lad = LadIdle
    /\ kp = KpIdle
    /\ cf = CfIdle
    /\ ell = EllIdle

SharedCall(c) ==
    \E A \in SharedA, n \in SharedTnewlen, P \in SharedP, i \in Indices :
        Call(c, A, SharedTs(c), n, P, i)

SharedStep(c) ==
    \/ SharedCall(c)
    \/ Asserts(c)
    \/ Dispatch(c)
    \/ Kps(c)
    \/ Xisog(c)
    \/ Xeval0(c)
    \/ Xeval1(c)
    \/ Params(c)
    \/ SetSJ(c)
    \/ SetSI(c)
    \/ SetSK(c)
    \/ Finish(c)

SharedNext == \E c \in Callers : SharedStep(c)

SpecShared == SharedInit /\ [][SharedNext]_vars

\* every index of the engine is served by the traditional formulas
TraditionalEngine == \A i \in Indices : batchmaxprime_of_Li(i) <= HYBRID_BOUND

\* what the call with arguments a and list T yields when nothing else runs
run_alone(a, T) ==
    LET l == L[a.i + 1]
        l_fake == batchmaxprime_of_Li(a.i)
        d == (l - 1) \div 2
        d_fake == (l_fake - 1) \div 2
        hats == Xi_Zi_hats_of(kps_t(d_fake, a.P, xA24(a.A)))
    IN  [A_new |-> xisog_t(d, d_fake, hats, a.A),
         Ts |-> [k \in 1 .. Len(T) |->
                    IF k <= a.Tnewlen THEN xeval_t(d, d_fake, hats, T[k])
                    ELSE T[k]]]

\* the (sJ, sI, sK) that set_parameters_velu stores for index i
triple_of(i) ==
    <<IntVal(velu_b(i)), IntVal(velu_c(i)),
      IntVal(velu_sK(velu_b(i), velu_c(i), i))>>

\* the caller whose statement the step executes is in set_parameters_velu
\* on an index whose batch maximum is above HYBRID_BOUND
SqrtWriter(c) ==
    /\ pc[c] \in {"set_sJ", "set_sI", "set_sK"}
    /\ pc'[c] # pc[c]
    /\ batchmaxprime_of_Li(args[c].i) > HYBRID_BOUND

\* C11: on an engine all of whose calls take the traditional path no
\* interleaving of two callers changes a scratch field from its constructed
\* value; every returned call, whatever the other caller did meanwhile, has
\* the codomain and the list it has when run alone; and a step that changes
\* the engine changes none of J, ptree_hI, K and is a statement of
\* set_parameters_velu executed by a call on the square-root path.
C11_NoInterference ==
    /\ [](TraditionalEngine => eng = EngInit)
    /\ [](\A c \in Callers :
            pc[c] = "done" =>
                /\ ret[c] = Returned(run_alone(args[c], Ts0[c]).A_new)
                /\ Ts[c] = run_alone(args[c], Ts0[c]).Ts)
    /\ [][eng' # eng =>
            /\ eng'.J = eng.J
            /\ eng'.ptree_hI = eng.ptree_hI
            /\ eng'.K = eng.K
            /\ \E c \in Callers : SqrtWriter(c)]_vars

\* two interleaved square-root calls on different indices have both ended
\* and the engine holds sJ of one with sI of the other: the triple of neither
C11_Witness ==
    /\ \A c \in Callers : ret[c] = Raised("NotImplementedError", 178)
    /\ <<eng.sJ, eng.sI, eng.sK>> # triple_of(args[1].i)
    /\ <<eng.sJ, eng.sI, eng.sK>> # triple_of(args[2].i)
    /\ \E s \in {1, 2} : <<eng.sJ, eng.sI>> = <<triple_of(args[s].i)[1],
                                                triple_of(args[3 - s].i)[2]>>
    /\ args[1].i # args[2].i

---------------------------------------------------------------------------
(* SpecKps: isogeny.py kps_t run on its own, one list append per step, on  *)
(* the curve y^2 = x^3 + a x^2 + x with A24 = (a + 2 : 4) and a point of   *)
(* the curve.  d_fake is the one the batch of index i gives.               *)

\* p = 4 * 3 * 5 * 11 - 1, one batch {3, 5, 11}
CfgWide ==
    [L |-> <<3, 5, 11>>, batch_start |-> <<0>>, batch_stop |-> <<2>>,
     p |-> 659, sJ_list |-> <<0, 1, 1>>, sI_list |-> <<0, 1, 2>>]

KpsConfigs == {CfgTiny, CfgSmall, CfgWide}
KpsA == {0, 6}
KpsZ == {1, 3}

\* a point of the curve with its y-coordinate; inf marks the neutral point
AffPoint(x, y) == [inf |-> FALSE, x |-> x, y |-> y]
AffInf == [inf |-> TRUE, x |-> 0, y |-> 0]

curve_y2(a, x) == FAdd(FAdd(FMul(FSqr(x), x), FMul(a, FSqr(x))), x)

\* the points (x, y) of the curve over GF(p), one of each pair (x, +-y)
CurvePoints(a) ==
    {AffInf} \cup
    {AffPoint(x, FPow(curve_y2(a, x), (p + 1) \div 4)) :
        x \in {u \in Fp : FSqr(FPow(curve_y2(a, u), (p + 1) \div 4))
                          = curve_y2(a, u)}}

\* the x-only representative (X : Z) handed to kps_t
x_only(Q, z) == IF Q.inf THEN <<z, 0>> ELSE <<FMul(Q.x, z), z>>

KpsInit ==
    /\ cfg \in KpsConfigs
    /\ EngineIdle
    /\ lad = LadIdle
    /\ cf = CfIdle
    /\ ell = EllIdle
    /\ \E a \in KpsA, z \in KpsZ, i \in Indices :
       \E Q \in CurvePoints(a) :
          kp = [pc |-> "start", a |-> a, P |-> x_only(Q, z), y |-> Q.y,
                i |-> i, d_fake |-> (batchmaxprime_of_Li(i) - 1) \div 2,
                A24 |-> affine_to_projective(a), Xi_Zis |-> <<>>,
                n_xdbl |-> 0, n_xadd |-> 0]

\* Xi_Zis = [] ; Xi_Zis.append(P)
KpsAppendP ==
    /\ kp.pc = "start"
    /\ kp' = [kp EXCEPT !.pc = "dbl", !.Xi_Zis = <<kp.P>>]
    /\ UNCHANGED <<engineVars, callVars, lad, cf, ell>>

\* if d_fake >= 2: Xi_Zis.append(self.curve.xdbl(P, A24))
KpsDbl ==
    /\ kp.pc = "dbl"
    /\ IF kp.d_fake >= 2
       THEN IF ~xdbl_assert(kp.P)
            THEN kp' = [kp EXCEPT !.pc = "raised"]
            ELSE kp' = [kp EXCEPT !.pc = "loop",
                                  !.Xi_Zis = Append(@, xdbl(kp.P, kp.A24)),
                                  !.n_xdbl = @ + 1]
       ELSE kp' = [kp EXCEPT !.pc = "loop"]
    /\ UNCHANGED <<engineVars, callVars, lad, cf, ell>>

\* the difference argument of the loop's xadd
kps_diff_first(Xi_Zis, i) == Xi_Zis[1]

\* Xi_Zis[i-2]
kps_diff(Xi_Zis, i) == Xi_Zis[i - 1]

\* for i in range(2, d_fake):
\*     Xi_Zis.append(self.curve.xadd(Xi_Zis[i-1], P, Xi_Zis[i-2]))
KpsAdd ==
    /\ kp.pc = "loop"
    /\ Len(kp.Xi_Zis) >= 2
    /\ Len(kp.Xi_Zis) < kp.d_fake
    /\ LET i == Len(kp.Xi_Zis)
       IN  kp' = [kp EXCEPT
                    !.Xi_Zis = Append(@, xadd(kp.Xi_Zis[i], kp.P,
                                              kps_diff(kp.Xi_Zis, i))),
                    !.n_xadd = @ + 1]
    /\ UNCHANGED <<engineVars, callVars, lad, cf, ell>>

\* return Xi_Zis
KpsReturn ==
    /\ kp.pc = "loop"
    /\ ~(Len(kp.Xi_Zis) >= 2 /\ Len(kp.Xi_Zis) < kp.d_fake)
    /\ kp' = [kp EXCEPT !.pc = "returned"]
    /\ UNCHANGED <<engineVars, callVars, lad, cf, ell>>

KpsNext == KpsAppendP \/ KpsDbl \/ KpsAdd \/ KpsReturn

SpecKps == KpsInit /\ [][KpsNext]_vars

---------------------------------------------------------------------------
(* The group law of the curve in affine coordinates, the reference the     *)
(* entries of kps_t are compared with.                                     *)

aff_neg(Q) == IF Q.inf THEN Q ELSE AffPoint(Q.x, FNeg(Q.y))

aff_dbl(a, Q) ==
    IF Q.inf \/ Q.y = 0 THEN AffInf
    ELSE LET lam == FMul(FAdd(FAdd(FMul(3, FSqr(Q.x)), FMul(FMul(2, a), Q.x)), 1),
                         FInv(FMul(2, Q.y)))
             x3 == FSub(FSub(FSqr(lam), a), FMul(2, Q.x))
         IN  AffPoint(x3, FSub(FMul(lam, FSub(Q.x, x3)), Q.y))

aff_add(a, Q, R) ==
    IF Q.inf THEN R
    ELSE IF R.inf THEN Q
    ELSE IF Q.x = R.x
         THEN IF FAdd(Q.y, R.y) = 0 THEN AffInf ELSE aff_dbl(a, Q)
    ELSE LET lam == FMul(FSub(R.y, Q.y), FInv(FSub(R.x, Q.x)))
             x3 == FSub(FSub(FSub(FSqr(lam), a), Q.x), R.x)
         IN  AffPoint(x3, FSub(FMul(lam, FSub(Q.x, x3)), Q.y))

\* [k]Q
RECURSIVE aff_mul(_, _, _)
aff_mul(a, k, Q) == IF k = 0 THEN AffInf ELSE aff_add(a, aff_mul(a, k - 1, Q), Q)

\* (X : Z) is the x-coordinate of Q
x_is(Q, XZ) ==
    IF Q.inf THEN XZ[2] = 0 /\ XZ[1] # 0
    ELSE XZ[2] # 0 /\ FMul(Q.x, XZ[2]) = XZ[1]

\* the point kps_t was given
KpsPoint ==
    IF kp.P[2] = 0 THEN AffInf
    ELSE AffPoint(FMul(kp.P[1], FInv(kp.P[2])), kp.y)

\* [j]P is not the neutral point for any j of 1 .. n
NoneNeutral(n) == \A j \in 1 .. n : ~aff_mul(kp.a, j, KpsPoint).inf

KpsCounts ==
    /\ Len(kp.Xi_Zis) = kp.d_fake
    /\ kp.n_xdbl = (IF kp.d_fake >= 2 THEN 1 ELSE 0)
    /\ kp.n_xadd = (IF kp.d_fake >= 2 THEN kp.d_fake - 2 ELSE 0)
    /\ kp.Xi_Zis = kps_t(kp.d_fake, kp.P, kp.A24)

\* a kernel point: a point whose order is one of the primes of L
KernelPoint ==
    /\ ~KpsPoint.inf
    /\ \E j \in 1 .. len_L : aff_mul(kp.a, L[j], KpsPoint).inf

---------------------------------------------------------------------------
(* SpecCoeff: the coefficient encodings of mont.py applied one after the   *)
(* other to a coefficient pair (Ax, Az); Az = 1 is the affine coefficient. *)

CoeffConfigs == {CfgTiny, CfgSmall, CfgThirteen}
CoeffAz == {1, 2, 5}

CoeffInit ==
    /\ cfg \in CoeffConfigs
    /\ EngineIdle
    /\ lad = LadIdle
    /\ kp = KpIdle
    /\ ell = EllIdle
    /\ \E Ax \in Fp, Az \in CoeffAz :
          cf = [pc |-> "start", A |-> <<Ax, Az>>, pair |-> <<Ax, Az>>,
                out |-> 0, hist |-> <<>>]

\* affine_to_projective(a) for the affine coefficient a = A[0], A[1] = 1
CoeffAffine ==
    /\ cf.pc = "start"
    /\ cf.A[2] = 1
    /\ cf' = [cf EXCEPT !.pc = "a24",
                        !.pair = affine_to_projective(cf.A[1]),
                        !.hist = Append(@, "affine_to_projective")]
    /\ UNCHANGED <<engineVars, callVars, lad, ell, kp>>

\* xA24 applied to the pair at hand
CoeffXA24 ==
    /\ cf.pc \in {"start", "a24"}
    /\ Len(cf.hist) < 2
    /\ cf' = [cf EXCEPT !.pc = "a24",
                        !.pair = xA24(cf.pair),
                        !.hist = Append(@, "xA24")]
    /\ UNCHANGED <<engineVars, callVars, lad, ell, kp>>

\* the inverse extraction applied to the pair at hand
CoeffExtract ==
    /\ cf.pc = "a24"
    /\ cf.pair[2] # 0
    /\ cf' = [cf EXCEPT !.pc = "out",
                        !.out = coeff(cf.pair),
                        !.hist = Append(@, "coeff")]
    /\ UNCHANGED <<engineVars, callVars, lad, ell, kp>>

CoeffNext == CoeffAffine \/ CoeffXA24 \/ CoeffExtract

SpecCoeff == CoeffInit /\ [][CoeffNext]_vars

\* C8 as stated: xA24 applied to affine_to_projective(a), then the inverse
\* extraction, gives back a.
C8_RoundTrip ==
    cf.hist = <<"affine_to_projective", "xA24", "coeff">> => cf.out = cf.A[1]

\* C8 amended: the inverse extraction applied to affine_to_projective(a)
\* itself gives back a; with xA24 in between it gives (a - 14) / 4.
C8_RoundTripAmended ==
    /\ cf.hist = <<"affine_to_projective", "coeff">> => cf.out = cf.A[1]
    /\ cf.hist = <<"affine_to_projective", "xA24", "coeff">> =>
          FMul(cf.out, field(4)) = FSub(cf.A[1], field(14))

C8_Witness ==
    /\ cf.hist = <<"affine_to_projective", "coeff">>
    /\ cf.A[1] = 5
    /\ cf.out = 5

\* C9: the pair xA24 returns for (Ax, Az) is the pair (Ax + 2 Az : 4 Az),
\* and for Az = 1 it is the pair affine_to_projective gives.
C9_A24Encoding ==
    cf.hist = <<"xA24">> =>
        /\ isequal(cf.pair, <<FAdd(cf.A[1], FAdd(cf.A[2], cf.A[2])),
                              FMul(field(4), cf.A[2])>>)
        /\ (cf.A[2] = 1 => isequal(cf.pair, affine_to_projective(cf.A[1])))

---------------------------------------------------------------------------
(* SpecElligator: mont.py elligator, one random draw per step.             *)

MaxRejects == 2

EllConfigs == {CfgTiny, CfgSmall}
EllAx == {0, 1, 2, 5, p - 1}
EllAz == {1, 3}

\* if u == 0: continue ... if D == 0: continue
elligator_rejects(u) == u = 0 \/ FSub(FSqr(u), 1) = 0

\* a swap taken when T is a square
elligator_ctrl_flipped(T) == is_square(T)

\* ctrl = not T.is_square()
elligator_ctrl(T) == ~is_square(T)

\* the two points returned for an accepted draw u
elligator_points(A, u) ==
    LET Ax == A[1]
        Az == A[2]
        one == field(1)
        u2 == FSqr(u)
        D0 == FSub(u2, 1)
        M0 == FMul(u2, Ax)
        T0 == FMul(M0, Ax)
        ctrl == Ax = 0
        P == CMOV(Ax, one, ctrl)
        M == CMOV(M0, one, ctrl)
        T1 == CMOV(T0, one, ctrl)
        D == FMul(D0, Az)
        D2 == FSqr(D)
        T2 == FAdd(T1, D2)
        T3 == FMul(T2, D)
        T == FMul(T3, P)
        xs == CSWAP(P, FNeg(M), elligator_ctrl(T))
    IN  << <<xs[1], D>>, <<xs[2], D>> >>

EllInit ==
    /\ cfg \in EllConfigs
    /\ EngineIdle
    /\ lad = LadIdle
    /\ kp = KpIdle
    /\ cf = CfIdle
    /\ \E Ax \in EllAx, Az \in EllAz :
          ell = [pc |-> "loop", A |-> <<Ax, Az>>, rejected |-> <<>>, u |-> 0,
                 Tplus |-> <<0, 0>>, Tminus |-> <<0, 0>>]

\* one turn of `while True` with the draw u = field.get_random()
EllDraw(u) ==
    /\ ell.pc = "loop"
    /\ IF elligator_rejects(u)
       THEN /\ Len(ell.rejected) < MaxRejects
            /\ ell' = [ell EXCEPT !.rejected = Append(@, u)]
       ELSE LET Tpm == elligator_points(ell.A, u)
            IN  ell' = [ell EXCEPT !.pc = "returned", !.u = u,
                                   !.Tplus = Tpm[1], !.Tminus = Tpm[2]]
    /\ UNCHANGED <<engineVars, callVars, lad, cf, kp>>

EllNext == \E u \in Fp : EllDraw(u)

SpecElligator == EllInit /\ [][EllNext]_vars

\* a is a non-zero square of the field
IsNonZeroSquare(a) == a # 0 /\ \E y \in Fp : (y * y) % p = a
IsNonSquare(a) == \A y \in Fp : (y * y) % p # a

\* x^3 + (Ax/Az) x^2 + x at x = X/Z
curve_rhs(A, T) ==
    LET x == FMul(T[1], FInv(T[2]))
        a == FMul(A[1], FInv(A[2]))
    IN  FAdd(FAdd(FMul(FSqr(x), x), FMul(a, FSqr(x))), x)

Degenerate(u) == u = 0 \/ (u * u) % p = 1

\* C10: every discarded draw is u = 0 or u^2 = 1 and the accepted draw is
\* neither; the two points share the denominator (u^2 - 1) Az, have X # 0
\* and Z # 0, x(T+) makes the curve's right-hand side a square and x(T-)
\* makes it a non-square.
C10_ElligatorValidity ==
    /\ \A k \in 1 .. Len(ell.rejected) : Degenerate(ell.rejected[k])
    /\ ell.pc = "returned" =>
          /\ ~Degenerate(ell.u)
          /\ ell.Tplus[2] = FMul(FSub(FSqr(ell.u), 1), ell.A[2])
          /\ ell.Tminus[2] = ell.Tplus[2]
          /\ ell.Tplus[1] # 0 /\ ell.Tplus[2] # 0
          /\ ell.Tminus[1] # 0 /\ ell.Tminus[2] # 0
          /\ IsNonZeroSquare(curve_rhs(ell.A, ell.Tplus))
          /\ IsNonSquare(curve_rhs(ell.A, ell.Tminus))

\* a return after two discarded draws, on the curve with Ax = 0, swapped
C10_Witness ==
    /\ ell.pc = "returned"
    /\ Len(ell.rejected) = 2
    /\ ell.A[1] = 0
    /\ ell.Tplus[1] = p - 1

---------------------------------------------------------------------------
(* SpecLadder: mont.py xmul_Ladder, one loop turn per step.  Next to the   *)
(* coordinates x0, x1 the model carries k0, k1: the multiples of P that x0 *)
(* and x1 stand for when xdbl doubles and xadd adds (x([2]Q), x(Q+R) in    *)
(* their docstrings).                                                      *)

MaxLadX == 12

LadConfigs == {CfgEleven, CfgThirteen}
LadP == {<<x, 1>> : x \in 1 .. MaxLadX} \cup {<<0, 1>>, <<1, 0>>}
LadA24 == {<<2, 4>>, <<8, 4>>}

\* the bits of n, most significant first
RECURSIVE binrep(_)
binrep(n) == IF n < 2 THEN <<n>> ELSE Append(binrep(n \div 2), n % 2)

sym_xdbl(k) == 2 * k
sym_xadd(ka, kb) == ka + kb

\* a swap on the current bit alone
ladder_swap_current(kbits, i) == kbits[i + 1] = 1

\* kbits[i+1] ^ kbits[i]
ladder_swap(kbits, i) == kbits[i + 2] # kbits[i + 1]

LadInit ==
    /\ cfg \in LadConfigs
    /\ EngineIdle
    /\ kp = KpIdle
    /\ cf = CfIdle
    /\ ell = EllIdle
    /\ \E j \in Indices, P \in LadP, A24 \in LadA24 :
          lad = [LadIdle EXCEPT !.pc = "call", !.j = j, !.P = P, !.A24 = A24]

\* assert XP != 0 and ZP != 0 ; kbits = binrep(L[j]) ;
\* x0, x1 = xdbl(P, A24), P
LadEnter ==
    /\ lad.pc = "call"
    /\ IF ~(lad.P[1] # 0 /\ lad.P[2] # 0)
       THEN lad' = [lad EXCEPT !.pc = "failed", !.err = "AssertionError"]
       ELSE LET kbits == binrep(L[lad.j + 1])
            IN  lad' = [lad EXCEPT !.kbits = kbits,
                                   !.x0 = xdbl(lad.P, lad.A24), !.x1 = lad.P,
                                   !.k0 = sym_xdbl(1), !.k1 = 1,
                                   !.i = Len(kbits) - 2,
                                   !.pc = IF Len(kbits) - 1 > 0 THEN "loop"
                                          ELSE "final"]
    /\ UNCHANGED <<engineVars, callVars, cf, ell, kp>>

\* x0, x1 = CSWAP(x0, x1, kbits[i+1] ^ kbits[i])
\* x0, x1 = xdbl(x0, A24), xadd(x0, x1, P)
LadLoop ==
    /\ lad.pc = "loop"
    /\ LET sw == ladder_swap(lad.kbits, lad.i)
           x == CSWAP(lad.x0, lad.x1, sw)
           k == CSWAP(lad.k0, lad.k1, sw)
       IN  IF ~xdbl_assert(x[1])
           THEN lad' = [lad EXCEPT !.pc = "failed", !.err = "AssertionError"]
           ELSE lad' = [lad EXCEPT !.x0 = xdbl(x[1], lad.A24),
                                   !.x1 = xadd(x[1], x[2], lad.P),
                                   !.k0 = sym_xdbl(k[1]),
                                   !.k1 = sym_xadd(k[1], k[2]),
                                   !.diff_ok = @ /\ (k[1] - k[2]) \in {1, 0 - 1},
                                   !.i = lad.i - 1,
                                   !.pc = IF lad.i = 0 THEN "final" ELSE "loop"]
    /\ UNCHANGED <<engineVars, callVars, cf, ell, kp>>

\* x0, x1 = CSWAP(x0, x1, kbits[0]) ; return x0
LadFinal ==
    /\ lad.pc = "final"
    /\ LET sw == lad.kbits[1] = 1
           x == CSWAP(lad.x0, lad.x1, sw)
           k == CSWAP(lad.k0, lad.k1, sw)
       IN  lad' = [lad EXCEPT !.x0 = x[1], !.x1 = x[2],
                              !.k0 = k[1], !.k1 = k[2], !.pc = "returned"]
    /\ UNCHANGED <<engineVars, callVars, cf, ell, kp>>

LadNext == LadEnter \/ LadLoop \/ LadFinal

SpecLadder == LadInit /\ [][LadNext]_vars

\* the integer whose bit of weight 2^i is bits[i] (Python index)
RECURSIVE le_value(_)
le_value(bits) ==
    IF bits = <<>> THEN 0 ELSE bits[1] + 2 * le_value(Tail(bits))

===========================================================================
